---- MODULE Spec2Model ----
(***************************************************************************)
(* Model of the zone-map tile generator (src/src/main.rs): the region      *)
(* hierarchy resolver (find_root_parent), the adjacency builder            *)
(* (add_neighbor, find_tile_neighbors, find_inter_tile_neighbors) and the  *)
(* greedy colorer (generate_colors_with_graph), and main, which runs them   *)
(* on the two continents and writes the results.                           *)
(*                                                                         *)
(* Five specifications share the variables:                                *)
(*   RootSpec   one call of find_root_parent, one loop iteration a step    *)
(*   Spec       graph construction, two runs side by side that visit the   *)
(*              hash collections in independent orders                     *)
(*   ColorSpec  one call of generate_colors_with_graph, one region a step, *)
(*              again two runs with independent hash-set iteration orders  *)
(*   TileSpec   one call of find_tile_neighbors on the empty graph         *)
(*   MainSpec   one run of main, one statement block a step                *)
(***************************************************************************)
EXTENDS Integers, Sequences, FiniteSets, TLC

VARIABLES
    pc,             \* position of the operation being modelled
    areas,          \* HashMap<u32, AreaInfo>, reduced to id |-> parent_id
    area_id,        \* find_root_parent: the argument
    current,        \* find_root_parent: local `current`
    visited,        \* find_root_parent: local `visited`
    root,           \* find_root_parent: the returned value
    tiles_raw,      \* HashMap<u32, Vec<u32>>: tile key |-> 256 area ids
    neighbor_graph, \* NeighborGraph: id |-> set of ids
    neighbor_graph2,\* the same graph in the second run
    todo,           \* tiles whose find_tile_neighbors call is still to come
    todo2,          \* the same for the second run
    found_areas,    \* BTreeSet<u32>
    area_list,      \* generate_colors_with_graph: the sorted Vec<u32>
    next_area,      \* generate_colors_with_graph: position of the for loop
    colors,         \* generate_colors_with_graph: area id |-> (r, g, b)
    colors2,        \* the same map in the second run
    files,          \* main: the inputs the run has looked for, path |-> what it found
    output,         \* main: the lines printed so far, on stdout and stderr
    written         \* main: the output files written so far

vars == <<pc, areas, area_id, current, visited, root, tiles_raw, neighbor_graph,
          neighbor_graph2, todo, todo2, found_areas, area_list, next_area,
          colors, colors2, files, output, written>>

rootVars  == <<area_id, current, visited, root>>
graphVars == <<tiles_raw, neighbor_graph, neighbor_graph2, todo, todo2>>
colorVars == <<found_areas, area_list, next_area, colors, colors2>>
mainVars  == <<files, output, written>>

\* The empty map (HashMap::new()).
EmptyMap == [x \in {} |-> {}]

Abs(n) == IF n < 0 THEN -n ELSE n

----------------------------------------------------------------------------
(* Region hierarchy resolver: find_root_parent                              *)

\* Largest region id of the reference tables drawn for find_root_parent.
MaxRootId == 3

RootIds == 0 .. MaxRootId
\* Parent links may point one past the ids that can be keys: an id that is
\* never present in the reference data.
RootParents == 0 .. (MaxRootId + 1)

AreaTables == UNION {[S -> RootParents] : S \in SUBSET RootIds}

RootInit ==
    /\ pc = "walk"
    /\ areas \in AreaTables
    /\ area_id \in RootParents
    /\ current = area_id
    /\ visited = {}
    /\ root = 0
    /\ tiles_raw = EmptyMap /\ neighbor_graph = EmptyMap /\ neighbor_graph2 = EmptyMap
    /\ todo = {} /\ todo2 = {}
    /\ found_areas = {} /\ area_list = <<>> /\ next_area = 1
    /\ colors = EmptyMap /\ colors2 = EmptyMap
    /\ files = EmptyMap /\ output = <<>> /\ written = {}

\* Variant of RootAbsent that returns the last id seen instead of the argument.
RootAbsentLastSeen ==
    /\ pc = "walk"
    /\ current \notin DOMAIN areas
    /\ root' = current
    /\ pc' = "returned"
    /\ UNCHANGED <<mainVars, areas, area_id, current, visited, graphVars, colorVars>>

\* `while let Some(area) = areas.get(&current)` fails: fall out, return area_id.
RootAbsent ==
    /\ pc = "walk"
    /\ current \notin DOMAIN areas
    /\ root' = area_id
    /\ pc' = "returned"
    /\ UNCHANGED <<mainVars, areas, area_id, current, visited, graphVars, colorVars>>

\* Inside the loop: `return current`.
RootReturn ==
    /\ pc = "walk"
    /\ current \in DOMAIN areas
    /\ (areas[current] = 0 \/ current \in visited)
    /\ root' = current
    /\ pc' = "returned"
    /\ UNCHANGED <<mainVars, areas, area_id, current, visited, graphVars, colorVars>>

\* Variant of RootAdvance that forgets to record the id it leaves.
RootAdvanceNoVisited ==
    /\ pc = "walk"
    /\ current \in DOMAIN areas
    /\ ~(areas[current] = 0 \/ current \in visited)
    /\ current' = areas[current]
    /\ UNCHANGED <<mainVars, pc, areas, area_id, visited, root, graphVars, colorVars>>

\* Inside the loop: remember current, move to its parent.
RootAdvance ==
    /\ pc = "walk"
    /\ current \in DOMAIN areas
    /\ ~(areas[current] = 0 \/ current \in visited)
    /\ visited' = visited \cup {current}
    /\ current' = areas[current]
    /\ UNCHANGED <<mainVars, pc, areas, area_id, root, graphVars, colorVars>>

RootNext == RootAbsent \/ RootReturn \/ RootAdvance

\* The loop is sequential code: a step that can be taken is taken.
RootSpec == RootInit /\ [][RootNext]_vars /\ WF_vars(RootNext)

\* The i-th id on the parent chain of id (the chain stops at an absent id).
RECURSIVE ChainAt(_, _, _)
ChainAt(tbl, id, i) ==
    IF i = 0 THEN id
    ELSE LET p == ChainAt(tbl, id, i - 1)
         IN  IF p \in DOMAIN tbl THEN tbl[p] ELSE p

\* C8: once find_root_parent has returned, its value is the one the parent
\* chain determines: with j the first position of the chain whose id is absent
\* from the table, or has parent 0, or was met earlier on the chain, the
\* result is the argument when that id is absent and that id otherwise.
RootResolution ==
    pc = "returned" =>
        \E j \in 0 .. (MaxRootId + 2) :
            LET p(i) == ChainAt(areas, area_id, i)
                earlier(i) == {p(m) : m \in 0 .. (i - 1)}
            IN  /\ \A i \in 0 .. (j - 1) :
                       /\ p(i) \in DOMAIN areas
                       /\ areas[p(i)] # 0
                       /\ p(i) \notin earlier(i)
                /\ \/ p(j) \notin DOMAIN areas /\ root = area_id
                   \/ p(j) \in DOMAIN areas /\ areas[p(j)] = 0 /\ root = p(j)
                   \/ p(j) \in DOMAIN areas /\ p(j) \in earlier(j) /\ root = p(j)

\* A three-level chain 1 -> 2 -> 3(root) resolved from 1.
RootResolutionWitness ==
    /\ pc = "returned"
    /\ area_id = 1 /\ DOMAIN areas = {1, 2, 3}
    /\ areas[1] = 2 /\ areas[2] = 3 /\ areas[3] = 0 /\ root = 3

\* A walk that left the reference data returns the argument, not the last id.
RootUnresolvableWitness ==
    /\ pc = "returned" /\ area_id = 1 /\ DOMAIN areas = {1, 2}
    /\ areas[1] = 2 /\ areas[2] = 4 /\ root = 1 /\ current = 4

\* C9: every call of find_root_parent returns, cyclic parent links included.
RootTerminates == <>(pc = "returned")

\* A chain 1 -> 2 -> 3 -> 2 that leads into a cycle has returned.
RootCycleWitness ==
    /\ pc = "returned" /\ area_id = 1 /\ DOMAIN areas = {1, 2, 3}
    /\ areas[1] = 2 /\ areas[2] = 3 /\ areas[3] = 2
    /\ root = 2 /\ visited = {1, 2, 3}

----------------------------------------------------------------------------
(* Adjacency builder: add_neighbor, find_tile_neighbors,                     *)
(* find_inter_tile_neighbors, and the part of main that calls them          *)

\* A tile is TileSize x TileSize chunks, a continent GridSize x GridSize tiles.
TileSize == 16
GridSize == 64

\* Largest area id that tiles and direct add_neighbor calls use.
MaxAreaId == 3
\* Largest number of tiles in one tile collection.
MaxTiles == 2

AreaIds == 0 .. MaxAreaId

tile_key(tile_x, tile_y) == tile_y * GridSize + tile_x

\* graph.entry(k).or_default().insert(v)
EntryInsert(graph, k, v) ==
    IF k \in DOMAIN graph
    THEN [graph EXCEPT ![k] = @ \cup {v}]
    ELSE graph @@ (k :> {v})

\* Variant of add_neighbor that records the edge at its first endpoint only.
add_neighbor_one_way(graph, a, b) ==
    IF a # 0 /\ b # 0 /\ a # b
    THEN EntryInsert(graph, a, b)
    ELSE graph

\* Variant of add_neighbor without the sentinel and self-loop test.
add_neighbor_unguarded(graph, a, b) ==
    EntryInsert(EntryInsert(graph, a, b), b, a)

\* Variant of add_neighbor that records an edge only between two regions that
\* have no neighbour yet.
add_neighbor_first_wins(graph, a, b) ==
    IF a # 0 /\ b # 0 /\ a # b /\ a \notin DOMAIN graph /\ b \notin DOMAIN graph
    THEN EntryInsert(EntryInsert(graph, a, b), b, a)
    ELSE graph

add_neighbor(graph, a, b) ==
    IF a # 0 /\ b # 0 /\ a # b
    THEN EntryInsert(EntryInsert(graph, a, b), b, a)
    ELSE graph

\* The program evaluates a value before it goes on; comparing the value makes
\* the model checker do the same instead of piling up unevaluated calls.
Evaluated(v) == v = v

\* Variant of HorizontalRow that pairs every cell with the next cell of the
\* row-major array, the last cell of a row with the first of the next row too.
RECURSIVE HorizontalRowWrapping(_, _, _, _)
HorizontalRowWrapping(area_ids, graph, y, x) ==
    IF x >= TileSize THEN graph
    ELSE LET idx1 == y * TileSize + x
             idx2 == y * TileSize + x + 1
             g == IF idx2 < TileSize * TileSize
                  THEN add_neighbor(graph, area_ids[idx1 + 1], area_ids[idx2 + 1])
                  ELSE graph
         IN  IF Evaluated(g) THEN HorizontalRowWrapping(area_ids, g, y, x + 1) ELSE g

\* for x in 0..15 { add_neighbor(graph, area_ids[y*16+x], area_ids[y*16+x+1]) }
RECURSIVE HorizontalRow(_, _, _, _)
HorizontalRow(area_ids, graph, y, x) ==
    IF x >= TileSize - 1 THEN graph
    ELSE LET idx1 == y * TileSize + x
             idx2 == y * TileSize + x + 1
             g == add_neighbor(graph, area_ids[idx1 + 1], area_ids[idx2 + 1])
         IN  IF Evaluated(g) THEN HorizontalRow(area_ids, g, y, x + 1) ELSE g

\* for y in 0..16 { ... }: the horizontal neighbours (left-right).
RECURSIVE HorizontalLoop(_, _, _)
HorizontalLoop(area_ids, graph, y) ==
    IF y >= TileSize THEN graph
    ELSE LET g == HorizontalRow(area_ids, graph, y, 0)
         IN  IF Evaluated(g) THEN HorizontalLoop(area_ids, g, y + 1) ELSE g

\* for x in 0..16 { add_neighbor(graph, area_ids[y*16+x], area_ids[(y+1)*16+x]) }
RECURSIVE VerticalRow(_, _, _, _)
VerticalRow(area_ids, graph, y, x) ==
    IF x >= TileSize THEN graph
    ELSE LET idx1 == y * TileSize + x
             idx2 == (y + 1) * TileSize + x
             g == add_neighbor(graph, area_ids[idx1 + 1], area_ids[idx2 + 1])
         IN  IF Evaluated(g) THEN VerticalRow(area_ids, g, y, x + 1) ELSE g

\* for y in 0..15 { ... }: the vertical neighbours (up-down).
RECURSIVE VerticalLoop(_, _, _)
VerticalLoop(area_ids, graph, y) ==
    IF y >= TileSize - 1 THEN graph
    ELSE LET g == VerticalRow(area_ids, graph, y, 0)
         IN  IF Evaluated(g) THEN VerticalLoop(area_ids, g, y + 1) ELSE g

find_tile_neighbors(area_ids, graph) ==
    LET g == HorizontalLoop(area_ids, graph, 0)
    IN  IF Evaluated(g) THEN VerticalLoop(area_ids, g, 0) ELSE g

\* for y in 0..16 { add_neighbor(graph, area_ids[y*16+15], right_ids[y*16+0]) }
RECURSIVE RightColumn(_, _, _, _)
RightColumn(area_ids, right_ids, graph, y) ==
    IF y >= TileSize THEN graph
    ELSE LET idx_current == y * TileSize + (TileSize - 1)
             idx_right == y * TileSize + 0
             g == add_neighbor(graph, area_ids[idx_current + 1], right_ids[idx_right + 1])
         IN  IF Evaluated(g) THEN RightColumn(area_ids, right_ids, g, y + 1) ELSE g

\* for x in 0..16 { add_neighbor(graph, area_ids[15*16+x], bottom_ids[0*16+x]) }
RECURSIVE BottomRow(_, _, _, _)
BottomRow(area_ids, bottom_ids, graph, x) ==
    IF x >= TileSize THEN graph
    ELSE LET idx_current == (TileSize - 1) * TileSize + x
             idx_bottom == 0 * TileSize + x
             g == add_neighbor(graph, area_ids[idx_current + 1], bottom_ids[idx_bottom + 1])
         IN  IF Evaluated(g) THEN BottomRow(area_ids, bottom_ids, g, x + 1) ELSE g

\* Variant of InterTileRight without the `tile_x < 63` test.
InterTileRightUnguarded(tiles, graph, key) ==
    LET tile_x == key % GridSize
        tile_y == key \div GridSize
        right_key == tile_y * GridSize + tile_x + 1
    IN  IF right_key \in DOMAIN tiles
        THEN RightColumn(tiles[key], tiles[right_key], graph, 0)
        ELSE graph

\* The body of the loop for one tile: the right neighbour tile.
InterTileRight(tiles, graph, key) ==
    LET tile_x == key % GridSize
        tile_y == key \div GridSize
        right_key == tile_y * GridSize + tile_x + 1
    IN  IF tile_x < GridSize - 1 /\ right_key \in DOMAIN tiles
        THEN RightColumn(tiles[key], tiles[right_key], graph, 0)
        ELSE graph

\* The body of the loop for one tile: the bottom neighbour tile.
InterTileBottom(tiles, graph, key) ==
    LET tile_x == key % GridSize
        tile_y == key \div GridSize
        bottom_key == (tile_y + 1) * GridSize + tile_x
    IN  IF tile_y < GridSize - 1 /\ bottom_key \in DOMAIN tiles
        THEN BottomRow(tiles[key], tiles[bottom_key], graph, 0)
        ELSE graph

\* `for (&key, area_ids) in tiles`: a HashMap yields its entries in an order the
\* program does not control; order is the one this call happens to get.
RECURSIVE find_inter_tile_neighbors(_, _, _, _)
find_inter_tile_neighbors(tiles, graph, order, i) ==
    IF i > Len(order) THEN graph
    ELSE LET g == InterTileBottom(tiles, InterTileRight(tiles, graph, order[i]), order[i])
         IN  IF Evaluated(g)
             THEN find_inter_tile_neighbors(tiles, g, order, i + 1)
             ELSE g

\* The orders in which a hash collection with the elements S can be iterated.
IterationOrders(S) ==
    {o \in [1 .. Cardinality(S) -> S] : \A e \in S : \E i \in DOMAIN o : o[i] = e}

\* Tile contents: four quadrants of 8 x 8 chunks.
Quad(a, b, c, d) ==
    [i \in 1 .. (TileSize * TileSize) |->
        LET row == (i - 1) \div TileSize
            col == (i - 1) % TileSize
        IN  IF 2 * row < TileSize
            THEN (IF 2 * col < TileSize THEN a ELSE b)
            ELSE (IF 2 * col < TileSize THEN c ELSE d)]

\* The tiles read: quadrants alternating between two area ids (0, no area,
\* among them), so that the two halves of every boundary row and column
\* differ; uniform when the two ids are equal.
TileContents == {Quad(a, b, b, a) : a \in AreaIds, b \in AreaIds}

\* Tile positions at the right edge of the grid: (62,0) and (63,0) side by
\* side, (63,1) below (63,0), and (0,1), whose key follows that of (63,0).
TileKeys == {tile_key(GridSize - 2, 0), tile_key(GridSize - 1, 0),
             tile_key(0, 1), tile_key(GridSize - 1, 1)}

TileCollections ==
    UNION {[K -> TileContents] : K \in {S \in SUBSET TileKeys : Cardinality(S) <= MaxTiles}}

\* The elements of S in ascending order.
RECURSIVE Ascending(_)
Ascending(S) ==
    IF S = {} THEN <<>>
    ELSE LET m == CHOOSE x \in S : \A y \in S : x <= y
         IN  <<m>> \o Ascending(S \ {m})

GraphInit ==
    /\ pc = "idle"
    /\ tiles_raw = EmptyMap
    /\ neighbor_graph = EmptyMap /\ neighbor_graph2 = EmptyMap
    /\ todo = {} /\ todo2 = {}
    /\ areas = EmptyMap /\ area_id = 0 /\ current = 0 /\ visited = {} /\ root = 0
    /\ found_areas = {} /\ area_list = <<>> /\ next_area = 1
    /\ colors = EmptyMap /\ colors2 = EmptyMap
    /\ files = EmptyMap /\ output = <<>> /\ written = {}

\* build_tile_export returned a continent's tiles.
BuildTileExport ==
    /\ pc = "idle"
    /\ \E tiles \in TileCollections :
          /\ tiles_raw' = tiles
          /\ todo' = DOMAIN tiles
          /\ todo2' = DOMAIN tiles
    /\ pc' = "intra"
    /\ UNCHANGED <<mainVars, areas, rootVars, neighbor_graph, neighbor_graph2, colorVars>>

\* One iteration of `for area_ids in export.tiles_raw.values()`. The first run
\* gets any tile not yet visited, the second run the one with the least key:
\* whatever the two runs agree on, any two iteration orders agree on.
FindTileNeighbors ==
    /\ pc = "intra"
    /\ todo # {}
    /\ \E k \in todo :
          LET k2 == Head(Ascending(todo2))
          IN  /\ neighbor_graph' = find_tile_neighbors(tiles_raw[k], neighbor_graph)
              /\ neighbor_graph2' = find_tile_neighbors(tiles_raw[k2], neighbor_graph2)
              /\ todo' = todo \ {k}
              /\ todo2' = todo2 \ {k2}
    /\ UNCHANGED <<mainVars, pc, areas, rootVars, tiles_raw, colorVars>>

\* find_inter_tile_neighbors(&export.tiles_raw, &mut neighbor_graph): the first
\* run iterates the map in any order, the second in ascending key order.
FindInterTileNeighbors ==
    /\ pc = "intra"
    /\ todo = {}
    /\ \E order \in IterationOrders(DOMAIN tiles_raw) :
          /\ neighbor_graph' =
                 find_inter_tile_neighbors(tiles_raw, neighbor_graph, order, 1)
          /\ neighbor_graph2' =
                 find_inter_tile_neighbors(tiles_raw, neighbor_graph2,
                                           Ascending(DOMAIN tiles_raw), 1)
    /\ pc' = "built"
    /\ UNCHANGED <<mainVars, areas, rootVars, tiles_raw, todo, todo2, colorVars>>

\* A direct call add_neighbor(&mut graph, a, b) on the graph built so far.
AddNeighbor ==
    /\ pc = "built"
    /\ \E a \in AreaIds, b \in AreaIds :
          /\ neighbor_graph' = add_neighbor(neighbor_graph, a, b)
          /\ neighbor_graph2' = add_neighbor(neighbor_graph2, a, b)
    /\ UNCHANGED <<mainVars, pc, areas, rootVars, tiles_raw, todo, todo2, colorVars>>

Next == BuildTileExport \/ FindTileNeighbors \/ FindInterTileNeighbors \/ AddNeighbor

Spec == GraphInit /\ [][Next]_vars

\* The neighbour set of a region (empty when the graph has no entry for it).
NeighborsOf(graph, a) == IF a \in DOMAIN graph THEN graph[a] ELSE {}

\* The area id of the chunk at (row, col) of a tile.
Chunk(area_ids, row, col) == area_ids[row * TileSize + col + 1]

\* C4: the adjacency graph is symmetric in every state of its construction:
\* a is a neighbour of b if and only if b is a neighbour of a.
GraphSymmetric ==
    \A a \in AreaIds, b \in AreaIds :
        (a \in NeighborsOf(neighbor_graph, b)) <=> (b \in NeighborsOf(neighbor_graph, a))

\* Tiles have been processed and the graph holds an edge.
GraphSymmetricWitness ==
    /\ pc = "built"
    /\ Cardinality(DOMAIN tiles_raw) = 2
    /\ \E a \in DOMAIN neighbor_graph : Cardinality(neighbor_graph[a]) = 2

\* C5: no region is its own neighbour, and the sentinel 0 is neither a key of
\* the graph nor a member of any neighbour set.
NoSelfNoSentinel ==
    /\ 0 \notin DOMAIN neighbor_graph
    /\ \A a \in DOMAIN neighbor_graph :
          a \notin neighbor_graph[a] /\ 0 \notin neighbor_graph[a]

\* A tile that holds the sentinel beside a real area and a uniform tile of a
\* real area have both been processed, and edges were recorded.
NoSelfNoSentinelWitness ==
    /\ pc = "built"
    /\ \E k1 \in DOMAIN tiles_raw, k2 \in DOMAIN tiles_raw :
          /\ {tiles_raw[k1][i] : i \in DOMAIN tiles_raw[k1]} = {0, 1}
          /\ {tiles_raw[k2][i] : i \in DOMAIN tiles_raw[k2]} = {2}
    /\ DOMAIN neighbor_graph = {1, 2}

HasTile(tiles, x, y) ==
    /\ x \in 0 .. (GridSize - 1)
    /\ y \in 0 .. (GridSize - 1)
    /\ tile_key(x, y) \in DOMAIN tiles

\* The pairs of area ids that face each other across the boundary of two
\* present tiles, looking from every tile in all four directions.
FacingPairs(tiles) ==
    UNION {
        LET x == k % GridSize
            y == k \div GridSize
            n == 0 .. (TileSize - 1)
        IN  (IF HasTile(tiles, x + 1, y)
             THEN {<<Chunk(tiles[k], r, TileSize - 1), Chunk(tiles[tile_key(x + 1, y)], r, 0)>> : r \in n}
             ELSE {})
            \cup
            (IF HasTile(tiles, x - 1, y)
             THEN {<<Chunk(tiles[k], r, 0), Chunk(tiles[tile_key(x - 1, y)], r, TileSize - 1)>> : r \in n}
             ELSE {})
            \cup
            (IF HasTile(tiles, x, y + 1)
             THEN {<<Chunk(tiles[k], TileSize - 1, c), Chunk(tiles[tile_key(x, y + 1)], 0, c)>> : c \in n}
             ELSE {})
            \cup
            (IF HasTile(tiles, x, y - 1)
             THEN {<<Chunk(tiles[k], 0, c), Chunk(tiles[tile_key(x, y - 1)], TileSize - 1, c)>> : c \in n}
             ELSE {})
        : k \in DOMAIN tiles}

\* The graph with the undirected edges between the real, different areas of
\* the given pairs added.
WithEdges(graph, pairs) ==
    LET edges == {e \in pairs : e[1] # 0 /\ e[2] # 0 /\ e[1] # e[2]}
        ends == {e[1] : e \in edges} \cup {e[2] : e \in edges}
    IN  [a \in (DOMAIN graph) \cup ends |->
            NeighborsOf(graph, a)
                \cup {e[2] : e \in {f \in edges : f[1] = a}}
                \cup {e[1] : e \in {f \in edges : f[2] = a}}]

\* C10: a call of find_inter_tile_neighbors adds to the graph exactly the
\* edges between facing boundary chunks of present tiles that are side by
\* side or one above the other in the grid, as a check in all four directions
\* would.
InterTileExact ==
    [][(pc = "intra" /\ pc' = "built") =>
          neighbor_graph' = WithEdges(neighbor_graph, FacingPairs(tiles_raw))]_vars

\* The tiles at (63,0) and (0,1), whose keys are consecutive, were both present
\* with different areas on the chunks a wrapped pairing would join: the call
\* added no edge.
InterTileExactWitness ==
    /\ pc = "built"
    /\ LET k == tile_key(GridSize - 1, 0)
           w == tile_key(0, 1)
       IN  /\ {k, w} = DOMAIN tiles_raw
           /\ {tiles_raw[k][i] : i \in DOMAIN tiles_raw[k]} = {1}
           /\ {tiles_raw[w][i] : i \in DOMAIN tiles_raw[w]} = {2}
           /\ neighbor_graph = EmptyMap

\* Two tiles side by side: (62,0) and (63,0) joined along their boundary.
InterTileSideBySideWitness ==
    /\ pc = "built"
    /\ LET k == tile_key(GridSize - 2, 0)
           r == tile_key(GridSize - 1, 0)
       IN  /\ {k, r} = DOMAIN tiles_raw
           /\ {tiles_raw[k][i] : i \in DOMAIN tiles_raw[k]} = {1}
           /\ {tiles_raw[r][i] : i \in DOMAIN tiles_raw[r]} = {2}
           /\ DOMAIN neighbor_graph = {1, 2}
           /\ neighbor_graph[1] = {2}

----------------------------------------------------------------------------
(* find_tile_neighbors on one tile and an empty graph                       *)

\* Largest number of cells of a tile that differ from the tile's background.
MaxMarks == 2

\* The cells (row, col) that may differ from the background: the top left
\* 2 x 2 block, the last cell of row 0 (which precedes cell (1, 0) in the
\* array), and the last cells of the last two rows.
MarkCells ==
    {0 * TileSize + 0, 0 * TileSize + 1, 1 * TileSize + 0, 1 * TileSize + 1,
     0 * TileSize + (TileSize - 1),
     (TileSize - 2) * TileSize + (TileSize - 1),
     (TileSize - 1) * TileSize + (TileSize - 2),
     (TileSize - 1) * TileSize + (TileSize - 1)}

\* A 256-element tile array: bg everywhere but on the marked cells.
MarkedTile(bg, marks) ==
    [i \in 1 .. (TileSize * TileSize) |->
        IF (i - 1) \in DOMAIN marks THEN marks[i - 1] ELSE bg]

TileArrays ==
    {MarkedTile(bg, marks) :
        bg \in AreaIds,
        marks \in UNION {[S -> AreaIds] :
                     S \in {T \in SUBSET MarkCells : Cardinality(T) <= MaxMarks}}}

TileInit ==
    /\ pc = "tile"
    /\ \E area_ids \in TileArrays : tiles_raw = [k \in {0} |-> area_ids]
    /\ neighbor_graph = EmptyMap /\ neighbor_graph2 = EmptyMap
    /\ todo = {0} /\ todo2 = {0}
    /\ areas = EmptyMap /\ area_id = 0 /\ current = 0 /\ visited = {} /\ root = 0
    /\ found_areas = {} /\ area_list = <<>> /\ next_area = 1
    /\ colors = EmptyMap /\ colors2 = EmptyMap
    /\ files = EmptyMap /\ output = <<>> /\ written = {}

\* find_tile_neighbors(area_ids, &mut graph) on the empty graph.
TileNeighbors ==
    /\ pc = "tile"
    /\ neighbor_graph' = find_tile_neighbors(tiles_raw[0], neighbor_graph)
    /\ neighbor_graph2' = neighbor_graph'
    /\ todo' = {} /\ todo2' = {}
    /\ pc' = "tiled"
    /\ UNCHANGED <<mainVars, areas, rootVars, tiles_raw, colorVars>>

TileNext == TileNeighbors

TileSpec == TileInit /\ [][TileNext]_vars

\* The pairs of area ids on two cells of a tile that are side by side in a row
\* or one above the other in a column.
AdjacentPairs(area_ids) ==
    {<<Chunk(area_ids, r, c), Chunk(area_ids, r, c + 1)>> :
        r \in 0 .. (TileSize - 1), c \in 0 .. (TileSize - 2)}
    \cup
    {<<Chunk(area_ids, r, c), Chunk(area_ids, r + 1, c)>> :
        r \in 0 .. (TileSize - 2), c \in 0 .. (TileSize - 1)}

\* C11: find_tile_neighbors applied to a tile and the empty graph yields
\* exactly the undirected edges between different non-zero area ids on
\* horizontally or vertically adjacent cells of the 16 x 16 grid: none for
\* cells that only touch diagonally, none between the last cell of a row and
\* the first cell of the next row.
TileExact ==
    pc = "tiled" =>
        neighbor_graph = WithEdges(EmptyMap, AdjacentPairs(tiles_raw[0]))

\* Area 1 on the last cell of row 0 and area 2 on the first cell of row 1, in
\* a tile of area 3: both are neighbours of 3 and not of each other.
TileExactWitness ==
    /\ pc = "tiled"
    /\ Chunk(tiles_raw[0], 0, TileSize - 1) = 1
    /\ Chunk(tiles_raw[0], 1, 0) = 2
    /\ DOMAIN neighbor_graph = {1, 2, 3}
    /\ neighbor_graph[1] = {3} /\ neighbor_graph[2] = {3}
    /\ neighbor_graph[3] = {1, 2}

\* Areas 1 and 2 on two cells that touch only at a corner, in a tile without
\* any other area: no edge.
TileDiagonalWitness ==
    /\ pc = "tiled"
    /\ Chunk(tiles_raw[0], 0, 0) = 1
    /\ Chunk(tiles_raw[0], 1, 1) = 2
    /\ Chunk(tiles_raw[0], 0, 1) = 0 /\ Chunk(tiles_raw[0], 1, 0) = 0
    /\ neighbor_graph = EmptyMap

----------------------------------------------------------------------------
(* Greedy colorer: generate_colors_with_graph                               *)

\* Colour channels are f32 values in [0, 1]; the model holds them in units of
\* 1/10000, so that 0.90 is 9000 and the tolerance 0.01 is 100.
palette ==
    << <<9000, 3000, 3000>>,   \* Red
       <<3000, 7000, 3000>>,   \* Green
       <<3000, 5000, 9000>>,   \* Blue
       <<9000, 8000, 2000>>,   \* Yellow
       <<8000, 4000, 8000>>,   \* Purple
       <<2000, 8000, 8000>>,   \* Cyan
       <<9500, 6000, 3000>>,   \* Orange
       <<6000, 8000, 4000>>,   \* Lime
       <<8000, 5000, 6000>>,   \* Pink
       <<5000, 7000, 8000>>,   \* Sky blue
       <<7000, 6000, 4000>>,   \* Tan
       <<6000, 4000, 7000>>,   \* Violet
       <<4000, 6000, 5000>>,   \* Teal
       <<8500, 7000, 7000>>,   \* Light pink
       <<7000, 8500, 7000>>,   \* Light green
       <<7000, 7000, 8500>> >> \* Light blue

\* palette.len(); palette indices are 0 .. PaletteLen - 1 as in the code.
PaletteLen == Len(palette)
PaletteAt(i) == palette[i + 1]

\* The comparison tolerance 0.01 in colour units.
Tolerance == 100

\* Largest clique of the graphs the colorer is run on.
MaxClique == 16
\* Largest number of regions outside the clique.
MaxSatellites == 2
\* Largest neighbour set whose iteration orders are all tried.
MaxPermuted == 3

\* Variant of PalettePosition that compares the red channel only.
PalettePositionRedOnly(c) ==
    LET matches == {i \in 0 .. (PaletteLen - 1) : Abs(PaletteAt(i)[1] - c[1]) < Tolerance}
    IN  IF matches = {} THEN {}
        ELSE {CHOOSE i \in matches : \A j \in matches : i <= j}

\* palette.iter().position(|p| all three channels within 0.01 of c): the
\* Option<usize> is the empty set (None) or a one-element set (Some(i)).
PalettePosition(c) ==
    LET matches == {i \in 0 .. (PaletteLen - 1) :
                        /\ Abs(PaletteAt(i)[1] - c[1]) < Tolerance
                        /\ Abs(PaletteAt(i)[2] - c[2]) < Tolerance
                        /\ Abs(PaletteAt(i)[3] - c[3]) < Tolerance}
    IN  IF matches = {} THEN {}
        ELSE {CHOOSE i \in matches : \A j \in matches : i <= j}

\* Variant of NeighborColors that stops at the first neighbour with a palette
\* colour (find_map in place of filter_map ... collect).
RECURSIVE NeighborColorsFirstOnly(_, _, _)
NeighborColorsFirstOnly(order, assigned, i) ==
    IF i > Len(order) THEN {}
    ELSE LET idx == IF order[i] \in DOMAIN assigned
                    THEN PalettePosition(assigned[order[i]])
                    ELSE {}
         IN  IF idx # {} THEN idx
             ELSE NeighborColorsFirstOnly(order, assigned, i + 1)

\* ns.iter().filter_map(|&n| colors.get(&n).and_then(position)).collect():
\* order is the order in which this call gets the elements of the HashSet.
RECURSIVE NeighborColors(_, _, _)
NeighborColors(order, assigned, i) ==
    IF i > Len(order) THEN {}
    ELSE (IF order[i] \in DOMAIN assigned
          THEN PalettePosition(assigned[order[i]])
          ELSE {})
         \cup NeighborColors(order, assigned, i + 1)

\* colors.get(&parent_id).and_then(position), with
\* parent_id = areas.get(&area_id).map(|a| a.parent_id).unwrap_or(0)
ParentColorIdx(area, parents, assigned) ==
    LET parent_id == IF area \in DOMAIN parents THEN parents[area] ELSE 0
    IN  IF parent_id \in DOMAIN assigned
        THEN PalettePosition(assigned[parent_id])
        ELSE {}

\* let mut chosen_idx = 0; for i in 0..palette.len() { if free { chosen_idx = i; break } }
ChosenIdx(neighbor_colors, parent_color_idx) ==
    LET free == {i \in 0 .. (PaletteLen - 1) :
                     i \notin neighbor_colors /\ i \notin parent_color_idx}
    IN  IF free = {} THEN 0
        ELSE CHOOSE i \in free : \A j \in free : i <= j

\* The golden ratio 0.618033988749895 and the hue, in units of 1/100000.
GoldenRatio == 61803
HueUnit == 100 * 1000

\* The fallback colour: hue = (area_id * golden_ratio) % 1.0, s = 0.7, v = 0.9,
\* converted from HSV to RGB by sector.
FallbackColor(area) ==
    LET hue == (area * GoldenRatio) % HueUnit
        h6 == hue * 6
        c == 6300
        x == (c * (HueUnit - Abs((h6 % (2 * HueUnit)) - HueUnit))) \div HueUnit
        m == 9000 - c
        sector == h6 \div HueUnit
        rgb == CASE sector = 0 -> <<c, x, 0>>
                 [] sector = 1 -> <<x, c, 0>>
                 [] sector = 2 -> <<0, c, x>>
                 [] sector = 3 -> <<0, x, c>>
                 [] sector = 4 -> <<x, 0, c>>
                 [] OTHER -> <<c, 0, x>>
    IN  <<rgb[1] + m, rgb[2] + m, rgb[3] + m>>

\* The colour one iteration of the loop gives area: the body of the for loop
\* up to colors.insert.
ColorFor(area, order, parents, assigned) ==
    LET neighbor_colors == NeighborColors(order, assigned, 1)
        parent_color_idx == ParentColorIdx(area, parents, assigned)
        chosen_idx == ChosenIdx(neighbor_colors, parent_color_idx)
    IN  IF chosen_idx < PaletteLen /\ chosen_idx \notin neighbor_colors
        THEN PaletteAt(chosen_idx)
        ELSE FallbackColor(area)

\* colors.insert(area_id, color)
MapInsert(map, k, v) == [x \in (DOMAIN map) \cup {k} |-> IF x = k THEN v ELSE map[x]]

\* neighbors.get(&a).map(|n| n.len()).unwrap_or(0)
NeighborCount(graph, a) == Cardinality(NeighborsOf(graph, a))

\* Variant of InsertSorted that puts an element before the elements of equal
\* neighbour count.
InsertSortedBeforeEqual(sorted, e, graph) ==
    LET before == {i \in DOMAIN sorted : NeighborCount(graph, sorted[i]) > NeighborCount(graph, e)}
        n == Cardinality(before)
    IN  SubSeq(sorted, 1, n) \o <<e>> \o SubSeq(sorted, n + 1, Len(sorted))

\* One insertion of the stable sort by Reverse(neighbour count): e goes after
\* every element whose count is greater than or equal to its own.
InsertSorted(sorted, e, graph) ==
    LET before == {i \in DOMAIN sorted : NeighborCount(graph, sorted[i]) >= NeighborCount(graph, e)}
        n == Cardinality(before)
    IN  SubSeq(sorted, 1, n) \o <<e>> \o SubSeq(sorted, n + 1, Len(sorted))

\* area_list.sort_by_key(|&a| Reverse(neighbour count)): a stable sort.
RECURSIVE SortByNeighborCount(_, _, _)
SortByNeighborCount(list, graph, i) ==
    IF i = 0 THEN <<>>
    ELSE LET sorted == SortByNeighborCount(list, graph, i - 1)
         IN  IF Evaluated(sorted) THEN InsertSorted(sorted, list[i], graph) ELSE sorted

\* Variant of AreaList without the filter on the sentinel.
AreaListUnfiltered(found, graph) ==
    LET list == Ascending(found)
    IN  SortByNeighborCount(list, graph, Len(list))

\* found_areas.iter().copied().filter(|&a| a != 0).collect(), then the sort.
AreaList(found, graph) ==
    LET list == Ascending(found \ {0})
    IN  SortByNeighborCount(list, graph, Len(list))

\* The orders in which a call may get the elements of a neighbour set: every
\* order for a small set, ascending and descending for a larger one.
NeighborOrders(S) ==
    IF Cardinality(S) <= MaxPermuted
    THEN IterationOrders(S)
    ELSE LET up == Ascending(S)
         IN  {up, [i \in DOMAIN up |-> up[Len(up) + 1 - i]]}

\* The graphs coloured: regions 1 .. k that are all neighbours of one another
\* and satellites k+1 .. n, each a neighbour of no region of the clique, of
\* region 1, of regions 2 .. k, or of all of 1 .. k.
Attachments(k) == {{}, {1} \cap (1 .. k), 2 .. k, 1 .. k}

CliqueGraph(k, attach) ==
    LET sats == DOMAIN attach
        nbrs(a) == IF a \in 1 .. k
                   THEN ((1 .. k) \ {a}) \cup {s \in sats : a \in attach[s]}
                   ELSE attach[a]
    IN  [a \in {b \in (1 .. k) \cup sats : nbrs(b) # {}} |-> nbrs(a)]

\* The reference tables: none, or one region with a parent link.
ParentTables(nodes) ==
    {EmptyMap} \cup UNION {[{child} -> {0} \cup nodes] : child \in nodes}

ColorInit ==
    /\ pc = "sort"
    /\ \E k \in 0 .. MaxClique, n \in 0 .. MaxSatellites :
          LET sats == (k + 1) .. (k + n)
          IN  /\ \E attach \in [sats -> Attachments(k)] :
                    neighbor_graph = CliqueGraph(k, attach)
              /\ \E zero \in SUBSET {0} : found_areas = (1 .. (k + n)) \cup zero
              /\ areas \in ParentTables(({1} \cap (1 .. k)) \cup sats)
    /\ neighbor_graph2 = neighbor_graph
    /\ area_list = <<>> /\ next_area = 1
    /\ colors = EmptyMap /\ colors2 = EmptyMap
    /\ files = EmptyMap /\ output = <<>> /\ written = {}
    /\ area_id = 0 /\ current = 0 /\ visited = {} /\ root = 0
    /\ tiles_raw = EmptyMap /\ todo = {} /\ todo2 = {}

\* The statements before the loop: the list of areas to colour, sorted.
SortAreas ==
    /\ pc = "sort"
    /\ area_list' = AreaList(found_areas, neighbor_graph)
    /\ next_area' = 1
    /\ pc' = "color"
    /\ UNCHANGED <<mainVars, areas, rootVars, graphVars, found_areas, colors, colors2>>

\* One iteration of `for area_id in area_list`, in both runs: the first run
\* gets the neighbour set in any order, the second in ascending order.
ColorArea ==
    /\ pc = "color"
    /\ next_area <= Len(area_list)
    /\ LET area == area_list[next_area]
           ns == NeighborsOf(neighbor_graph, area)
       IN  \E order \in NeighborOrders(ns) :
              /\ colors' = MapInsert(colors, area,
                               ColorFor(area, order, areas, colors))
              /\ colors2' = MapInsert(colors2, area,
                               ColorFor(area, Ascending(ns), areas, colors2))
    /\ next_area' = next_area + 1
    /\ UNCHANGED <<mainVars, pc, areas, rootVars, graphVars, found_areas, area_list>>

\* The loop is over: `colors` is returned.
ColorReturn ==
    /\ pc = "color"
    /\ next_area > Len(area_list)
    /\ pc' = "colored"
    /\ UNCHANGED <<mainVars, areas, rootVars, graphVars, colorVars>>

ColorNext == SortAreas \/ ColorArea \/ ColorReturn

ColorSpec == ColorInit /\ [][ColorNext]_vars

\* The palette indices whose entry is exactly the colour c: one index for a
\* colour taken from the palette, none for a fallback colour.
PaletteIndices(c) == {i \in 0 .. (PaletteLen - 1) : PaletteAt(i) = c}

\* The immediate parent of a region (0 when the reference data has no entry).
ParentOf(a) == IF a \in DOMAIN areas THEN areas[a] ELSE 0

\* C1: when the pass has finished, two adjacent regions that both hold a
\* palette colour hold different palette indices.
AdjacentPaletteDistinct ==
    pc = "colored" =>
        \A a \in DOMAIN colors :
            \A b \in NeighborsOf(neighbor_graph, a) \cap DOMAIN colors :
                PaletteIndices(colors[a]) \cap PaletteIndices(colors[b]) = {}

\* A pass has finished in which the palette ran out: a region with sixteen
\* palette-coloured neighbours holds its fallback colour.
AdjacentPaletteDistinctWitness ==
    /\ pc = "colored"
    /\ \E a \in DOMAIN colors :
          /\ colors[a] = FallbackColor(a)
          /\ Cardinality({PaletteIndices(colors[b]) : b \in NeighborsOf(neighbor_graph, a)})
                 = PaletteLen

\* C2, as claimed: when the pass has finished, a palette-coloured region whose
\* immediate parent (another region) is palette-coloured too holds a palette
\* index different from its parent's.
ParentPaletteDistinct ==
    pc = "colored" =>
        \A a \in DOMAIN colors :
            (ParentOf(a) \in DOMAIN colors /\ ParentOf(a) # a) =>
                PaletteIndices(colors[a]) \cap PaletteIndices(colors[ParentOf(a)]) = {}

\* A region whose parent was coloured before it, with palette index 0, and
\* whose neighbours hold the fifteen other indices, was given palette entry 0.
ParentColorReused ==
    /\ pc = "colored"
    /\ \E a \in DOMAIN colors :
          /\ ParentOf(a) \in DOMAIN colors /\ ParentOf(a) # a
          /\ NeighborCount(neighbor_graph, ParentOf(a)) > NeighborCount(neighbor_graph, a)
          /\ colors[a] = PaletteAt(0)
          /\ colors[ParentOf(a)] = PaletteAt(0)
          /\ UNION {PaletteIndices(colors[b]) : b \in NeighborsOf(neighbor_graph, a)}
                 = 1 .. (PaletteLen - 1)

\* The palette indices excluded for a region when its turn comes: those of its
\* neighbours that hold a colour and that of its immediate parent, if the
\* parent holds one.
ExcludedIndices(a) ==
    UNION {PaletteIndices(colors[b]) : b \in NeighborsOf(neighbor_graph, a) \cap DOMAIN colors}
    \cup (IF ParentOf(a) \in DOMAIN colors
          THEN PaletteIndices(colors[ParentOf(a)])
          ELSE {})

\* C12, as claimed: a region for which every palette entry is excluded when
\* its turn comes is given the synthesized colour, and no palette entry of the
\* excluded set.
FallbackWhenExhausted ==
    [][(pc = "color" /\ next_area' = next_area + 1) =>
          LET a == area_list[next_area]
          IN  ExcludedIndices(a) = 0 .. (PaletteLen - 1) =>
                  /\ colors'[a] = FallbackColor(a)
                  /\ PaletteIndices(colors'[a]) \cap ExcludedIndices(a) = {}]_vars

\* C3: colours go only to regions of the found set other than 0; a step of the
\* pass that changes the map gives one region that had no colour its colour
\* and leaves every recorded colour as it is; at the end every region of the
\* found set other than 0 has a colour.
ColoredOnce ==
    /\ [](DOMAIN colors \subseteq found_areas \ {0})
    /\ [](pc = "colored" => DOMAIN colors = found_areas \ {0})
    /\ [][/\ \A a \in DOMAIN colors : a \in DOMAIN colors' /\ colors'[a] = colors[a]
          /\ (next_area' # next_area) =>
                \E a \in found_areas \ {0} :
                    a \notin DOMAIN colors /\ DOMAIN colors' = (DOMAIN colors) \cup {a}
          /\ (next_area' = next_area) => colors' = colors]_vars

\* A pass over a found set that holds the sentinel has finished.
ColoredOnceWitness ==
    /\ pc = "colored"
    /\ 0 \in found_areas
    /\ Cardinality(DOMAIN colors) >= 3
    /\ neighbor_graph # EmptyMap

\* C7: the two runs, which get every neighbour set in independent orders, hold
\* the same colours after every step, and the regions are coloured in
\* descending neighbour-count order, ties in ascending id order.
ColoringDeterministic ==
    /\ colors = colors2
    /\ pc # "sort" =>
          /\ {area_list[i] : i \in DOMAIN area_list} = found_areas \ {0}
          /\ \A i \in DOMAIN area_list, j \in DOMAIN area_list :
                i < j =>
                    LET ci == NeighborCount(neighbor_graph, area_list[i])
                        cj == NeighborCount(neighbor_graph, area_list[j])
                    IN  ci > cj \/ (ci = cj /\ area_list[i] < area_list[j])

\* A pass has finished in which two regions had the same neighbour count and
\* a region had several neighbours coloured before it.
ColoringDeterministicWitness ==
    /\ pc = "colored"
    /\ \E a \in DOMAIN colors, b \in DOMAIN colors :
          /\ a < b
          /\ NeighborCount(neighbor_graph, a) = NeighborCount(neighbor_graph, b)
          /\ NeighborCount(neighbor_graph, a) >= 2
          /\ PaletteIndices(colors[b]) = {2}

----------------------------------------------------------------------------
(* main: one run of the program                                             *)

\* Largest number of tile files in one tile-source directory.
MaxDirFiles == 2

\* A printed line: the stream, the text without its arguments, the path the
\* line names ("" when it names none) and the number it reports.
Line(stream, text, path, n) == [stream |-> stream, text |-> text, path |-> path, n |-> n]

\* The two tile-source directories.
TileDirs == {"kalimdor_adts", "azeroth_adts"}

\* AreaTable.1.15.8.64907.csv: absent, present and rejected by
\* parse_area_table, or present with one region (3) whose parent is 1.
AreaTableFiles ==
    {[exists |-> FALSE, parses |-> FALSE, areas |-> EmptyMap],
     [exists |-> TRUE, parses |-> FALSE, areas |-> EmptyMap],
     [exists |-> TRUE, parses |-> TRUE, areas |-> [a \in {3} |-> 1]]}

\* The Data directory: there already, or absent and then created or not.
DataDirs ==
    {[exists |-> TRUE, creatable |-> TRUE],
     [exists |-> FALSE, creatable |-> TRUE],
     [exists |-> FALSE, creatable |-> FALSE]}

\* mapIdToArea.csv: absent, rejected by parse_map_to_area_csv, or parsed.
MapCsvFiles ==
    {[exists |-> FALSE, parses |-> FALSE],
     [exists |-> TRUE, parses |-> FALSE],
     [exists |-> TRUE, parses |-> TRUE]}

\* A file Map_x_y.adt: one the decoder rejects, one without chunks, one with
\* two chunks only (areas 2 and 3), and a complete one of areas 1 and 3.
AdtFiles ==
    {[decodes |-> FALSE, area_ids |-> <<>>],
     [decodes |-> TRUE, area_ids |-> <<>>],
     [decodes |-> TRUE, area_ids |-> <<2, 3>>],
     [decodes |-> TRUE, area_ids |-> Quad(1, 3, 3, 1)]}

\* A tile-source directory: absent, present and unreadable, or present with
\* the files of n <= MaxDirFiles tiles in a row, (0,0) .. (n-1,0).
AdtDirs ==
    {[exists |-> FALSE, readable |-> FALSE, adts |-> EmptyMap],
     [exists |-> TRUE, readable |-> FALSE, adts |-> EmptyMap]}
    \cup {[exists |-> TRUE, readable |-> TRUE, adts |-> f] :
            f \in UNION {[{tile_key(x, 0) : x \in 0 .. (n - 1)} -> AdtFiles] :
                           n \in 0 .. MaxDirFiles}}

\* area_ids.resize(256, 0)
Resize(area_ids) ==
    LET n == TileSize * TileSize
    IN  IF Len(area_ids) >= n THEN SubSeq(area_ids, 1, n)
        ELSE area_ids \o [i \in 1 .. (n - Len(area_ids)) |-> 0]

\* parse_adt_areaids gave Ok(Some(area_ids)) for the file.
Parsed(f) == f.decodes /\ f.area_ids # <<>>

\* export.tiles_raw when build_tile_export returns Ok(export).
ExportTilesRaw(d) ==
    [k \in {j \in DOMAIN d.adts : Parsed(d.adts[j])} |-> Resize(d.adts[k].area_ids)]

\* export.found_areas: the non-zero area ids of the tiles parsed.
ExportFoundAreas(tiles) ==
    UNION {{tiles[k][i] : i \in DOMAIN tiles[k]} : k \in DOMAIN tiles} \ {0}

\* The lines `ERROR parsing ...` of build_tile_export, in the order in which
\* read_dir yields the files.
RECURSIVE ParseErrors(_, _, _, _)
ParseErrors(dir, d, order, i) ==
    IF i > Len(order) THEN <<>>
    ELSE (IF d.adts[order[i]].decodes THEN <<>>
          ELSE <<Line("stderr", "ERROR parsing", dir, order[i])>>)
         \o ParseErrors(dir, d, order, i + 1)

\* for area_ids in export.tiles_raw.values() { find_tile_neighbors(area_ids, graph) }
RECURSIVE FindAllTileNeighbors(_, _, _, _)
FindAllTileNeighbors(tiles, graph, order, i) ==
    IF i > Len(order) THEN graph
    ELSE LET g == find_tile_neighbors(tiles[order[i]], graph)
         IN  IF Evaluated(g) THEN FindAllTileNeighbors(tiles, g, order, i + 1) ELSE g

\* all_tiles_raw.extend(export.tiles_raw)
Extend(map, more) ==
    [k \in (DOMAIN map) \cup (DOMAIN more) |-> IF k \in DOMAIN more THEN more[k] ELSE map[k]]

MainInit ==
    /\ pc = "main"
    /\ files = EmptyMap /\ output = <<>> /\ written = {}
    /\ areas = EmptyMap
    /\ tiles_raw = EmptyMap /\ neighbor_graph = EmptyMap /\ neighbor_graph2 = EmptyMap
    /\ todo = {} /\ todo2 = {}
    /\ found_areas = {} /\ area_list = <<>> /\ next_area = 1
    /\ colors = EmptyMap /\ colors2 = EmptyMap
    /\ area_id = 0 /\ current = 0 /\ visited = {} /\ root = 0

\* The banner and `let areas = if csv_path.exists() { ... } else { ... }`.
LoadAreaTable ==
    /\ pc = "main"
    /\ \E f \in AreaTableFiles :
          /\ files' = MapInsert(files, "AreaTable.1.15.8.64907.csv", f)
          /\ areas' = f.areas
          /\ output' = output \o
                <<Line("stdout", "ZoneMap Tile Generator", "", 0),
                  IF ~f.exists
                  THEN Line("stderr", "Warning: AreaTable CSV not found", "", 0)
                  ELSE IF ~f.parses
                  THEN Line("stderr", "Warning: Failed to parse area table", "", 0)
                  ELSE Line("stdout", "Loaded areas from CSV", "", Cardinality(DOMAIN f.areas))>>
    /\ pc' = "data_dir"
    /\ UNCHANGED <<written, rootVars, graphVars, colorVars>>

\* `if !out_dir.exists() { if let Err(e) = fs::create_dir(out_dir) { ...; return; } }`
CreateDataDir ==
    /\ pc = "data_dir"
    /\ \E d \in DataDirs :
          /\ files' = MapInsert(files, "Data", d)
          /\ output' = IF d.exists THEN output
                       ELSE IF d.creatable
                       THEN Append(output, Line("stdout", "Created Data/ directory", "", 0))
                       ELSE Append(output, Line("stderr", "Failed to create Data directory", "", 0))
          /\ pc' = IF d.exists \/ d.creatable THEN "kalimdor" ELSE "returned early"
    /\ UNCHANGED <<written, areas, rootVars, graphVars, colorVars>>

\* `if let Ok(export) = build_tile_export(dir, name) { ... }`: build_tile_export
\* returns Err for a directory that does not exist or cannot be read, and the
\* block is skipped; otherwise the continent's tiles go into the graph, the
\* found set and all_tiles_raw (here tiles_raw), and its tile file is written.
\* order is the iteration order of the HashMap tiles_raw, read_order the order
\* in which read_dir yields the files.
ProcessContinent(dir, out_path) ==
    \E d \in AdtDirs :
        /\ files' = MapInsert(files, dir, d)
        /\ IF d.exists /\ d.readable
           THEN LET tiles == ExportTilesRaw(d)
                IN  /\ found_areas' = found_areas \cup ExportFoundAreas(tiles)
                    /\ \E order \in IterationOrders(DOMAIN tiles) :
                          LET g == FindAllTileNeighbors(tiles, neighbor_graph, order, 1)
                          IN  /\ Evaluated(g)
                              /\ neighbor_graph' =
                                     find_inter_tile_neighbors(tiles, g, order, 1)
                    /\ neighbor_graph2' = neighbor_graph'
                    /\ tiles_raw' = Extend(tiles_raw, tiles)
                    /\ \E wrote \in BOOLEAN, read_order \in IterationOrders(DOMAIN d.adts) :
                          /\ written' = IF wrote THEN written \cup {out_path} ELSE written
                          /\ output' = output
                                \o <<Line("stdout", "Scanning", dir, 0)>>
                                \o ParseErrors(dir, d, read_order, 1)
                                \o <<Line("stdout", "Parsed tiles, found unique areas", dir,
                                          Cardinality(DOMAIN tiles)),
                                     IF wrote
                                     THEN Line("stdout", "Wrote", out_path, 0)
                                     ELSE Line("stderr", "Failed to write", out_path, 0)>>
           ELSE UNCHANGED <<found_areas, neighbor_graph, neighbor_graph2, tiles_raw,
                            written, output>>

\* Process Kalimdor
ProcessKalimdor ==
    /\ pc = "kalimdor"
    /\ ProcessContinent("kalimdor_adts", "Data/Kalimdor_tiles.lua")
    /\ pc' = "azeroth"
    /\ UNCHANGED <<areas, rootVars, todo, todo2, area_list, next_area, colors, colors2>>

\* Process Azeroth
ProcessAzeroth ==
    /\ pc = "azeroth"
    /\ ProcessContinent("azeroth_adts", "Data/Azeroth_tiles.lua")
    /\ pc' = "colors"
    /\ UNCHANGED <<areas, rootVars, todo, todo2, area_list, next_area, colors, colors2>>

\* The two lines printed before generate_colors_with_graph is called; the call
\* itself is SortAreas, ColorArea and ColorReturn.
GenerateColors ==
    /\ pc = "colors"
    /\ output' = output \o
          <<Line("stdout", "Building neighbor graph...", "", 0),
            Line("stdout", "Found areas with neighbor relationships", "",
                 Cardinality(DOMAIN neighbor_graph))>>
    /\ pc' = "sort"
    /\ UNCHANGED <<files, written, areas, rootVars, graphVars, colorVars>>

\* export_area_info(...) and the line that reports its result.
ExportAreaInfo ==
    /\ pc = "colored"
    /\ \E wrote \in BOOLEAN :
          /\ written' = IF wrote THEN written \cup {"Data/AreaInfo.lua"} ELSE written
          /\ output' = output \o
                <<Line("stdout", "Generating area info...", "", 0),
                  IF wrote
                  THEN Line("stdout", "Wrote", "Data/AreaInfo.lua", 0)
                  ELSE Line("stderr", "Failed to write area info", "Data/AreaInfo.lua", 0)>>
    /\ pc' = "hierarchy"
    /\ UNCHANGED <<files, areas, rootVars, graphVars, colorVars>>

\* export_area_hierarchy(...) and the line that reports its result.
ExportAreaHierarchy ==
    /\ pc = "hierarchy"
    /\ \E wrote \in BOOLEAN :
          /\ written' = IF wrote THEN written \cup {"Data/AreaHierarchy.lua"} ELSE written
          /\ output' = output \o
                <<Line("stdout", "Generating area hierarchy...", "", 0),
                  IF wrote
                  THEN Line("stdout", "Wrote", "Data/AreaHierarchy.lua", 0)
                  ELSE Line("stderr", "Failed to write area hierarchy",
                            "Data/AreaHierarchy.lua", 0)>>
    /\ pc' = "map_to_area"
    /\ UNCHANGED <<files, areas, rootVars, graphVars, colorVars>>

\* The map-to-area block and the last line of main.
ExportMapToArea ==
    /\ pc = "map_to_area"
    /\ \E f \in MapCsvFiles, wrote \in BOOLEAN :
          /\ (f.exists /\ f.parses) \/ wrote
          /\ files' = MapInsert(files, "mapIdToArea.csv", f)
          /\ written' = IF f.exists /\ f.parses /\ wrote
                        THEN written \cup {"Data/MapToArea.lua"}
                        ELSE written
          /\ output' = output \o
                (IF ~f.exists
                 THEN <<Line("stdout", "Skipping map-to-area (mapIdToArea.csv not found)", "", 0)>>
                 ELSE <<Line("stdout", "Generating map to area mapping...", "", 0)>> \o
                      (IF ~f.parses
                       THEN <<Line("stderr", "Failed to parse mapIdToArea.csv", "", 0)>>
                       ELSE <<Line("stdout", "Loaded map-to-area entries", "", 0),
                              IF wrote
                              THEN Line("stdout", "Wrote", "Data/MapToArea.lua", 0)
                              ELSE Line("stderr", "Failed to write map to area",
                                        "Data/MapToArea.lua", 0)>>))
                \o <<Line("stdout", "Done!", "", 0)>>
    /\ pc' = "done"
    /\ UNCHANGED <<areas, rootVars, graphVars, colorVars>>

MainNext ==
    \/ LoadAreaTable \/ CreateDataDir \/ ProcessKalimdor \/ ProcessAzeroth
    \/ GenerateColors \/ SortAreas \/ ColorArea \/ ColorReturn
    \/ ExportAreaInfo \/ ExportAreaHierarchy \/ ExportMapToArea

MainSpec == MainInit /\ [][MainNext]_vars

\* The run found no directory at the path.
Absent(dir) == dir \in DOMAIN files /\ ~files[dir].exists

\* A printed line names the directory.
Warned(dir) == \E i \in DOMAIN output : output[i].path = dir

\* The tiles of a directory as the run takes them: none for a directory that
\* is absent or cannot be read.
TilesOf(dir) ==
    IF files[dir].exists /\ files[dir].readable THEN ExportTilesRaw(files[dir]) ELSE EmptyMap

\* The run has finished with everything a run over the tiles of the directory
\* `other` alone produces: its tiles, found areas and edges, a colour for every
\* found area, and every export step after the continents carried out (the
\* file written or the failure reported).
ContinuedWith(other) ==
    LET tiles == TilesOf(other)
    IN  /\ (files[other].exists /\ files[other].readable) =>
               \E i \in DOMAIN output :
                   output[i].text = "Scanning" /\ output[i].path = other
        /\ tiles_raw = tiles
        /\ found_areas = ExportFoundAreas(tiles)
        /\ neighbor_graph =
               WithEdges(EmptyMap,
                         UNION {AdjacentPairs(tiles[k]) : k \in DOMAIN tiles}
                             \cup FacingPairs(tiles))
        /\ DOMAIN colors = found_areas
        /\ \A path \in {"Data/AreaInfo.lua", "Data/AreaHierarchy.lua"} :
               path \in written \/ \E i \in DOMAIN output : output[i].path = path
        /\ \E i \in DOMAIN output :
               output[i].text \in {"Skipping map-to-area (mapIdToArea.csv not found)",
                                   "Generating map to area mapping..."}

\* C13, as claimed: a run that found a tile-source directory absent and went
\* on to its end has logged a warning for that directory, has processed the
\* other continent, and has carried out the colouring and the export steps
\* as with an empty tile set for the absent one.
MissingDirectoryHandled ==
    pc = "done" =>
        \A dir \in TileDirs :
            Absent(dir) =>
                /\ Warned(dir)
                /\ \A other \in TileDirs \ {dir} : ContinuedWith(other)

\* The part of C13 that holds of the run: all of it but the warning.
MissingDirectoryContinues ==
    pc = "done" =>
        \A dir \in TileDirs :
            Absent(dir) => \A other \in TileDirs \ {dir} : ContinuedWith(other)

\* A run without kalimdor_adts has finished: the tiles of azeroth_adts gave
\* the edge between areas 1 and 3, both are coloured, and the area files are
\* written.
MissingDirectoryWitness ==
    /\ pc = "done"
    /\ Absent("kalimdor_adts")
    /\ DOMAIN neighbor_graph = {1, 3}
    /\ DOMAIN colors = {1, 3}
    /\ {"Data/Azeroth_tiles.lua", "Data/AreaInfo.lua", "Data/AreaHierarchy.lua"} \subseteq written

====
